---------------------------- MODULE Spec2Model ----------------------------
(***************************************************************************)
(* Model of the CONNECT tunnel handler of http-proxy                       *)
(* (src/httpconnect/httpconnect.go): ServeHTTP, portAllowed, intercept,    *)
(* ServeError, together with the peers of a tunnel (client, destination)   *)
(* and the idle guard that wraps the outbound connection.                  *)
(*                                                                         *)
(* A request target (req.Host) is a sequence of one-character strings.     *)
(***************************************************************************)
EXTENDS Integers, Sequences, FiniteSets, TLC

(***************************************************************************)
(* Bounds of the model.                                                    *)
(***************************************************************************)
MaxSessions == 2
MaxTargetLen == 3
MaxAllowLen == 2
MaxTimeout == 2
MaxBytes == 1
BufSize == 2
MaxSetters == 2

Chars == {"h", ":", "1", "2", "-", "[", "]"}
Digits == {"0", "1", "2", "3", "4", "5", "6", "7", "8", "9"}
PortValues == {1, 12}
Methods == {"CONNECT", "GET"}
Writers == {"hijacker", "plain"}
Bytes == {"a", "b"}

StatusOK == 200
StatusBadRequest == 400
StatusForbidden == 403
StatusBadGateway == 502

SeqsUpTo(S, n) == UNION {[1..k -> S] : k \in 0..n}

(***************************************************************************)
(* Pure helpers: the string functions portAllowed calls.                   *)
(***************************************************************************)
Min(a, b) == IF a < b THEN a ELSE b

\* Index of the last / first occurrence of c in s, 0 when there is none.
LastIndex(s, c) ==
    LET I == {i \in 1..Len(s) : s[i] = c}
    IN IF I = {} THEN 0 ELSE CHOOSE i \in I : \A j \in I : j <= i

FirstIndex(s, c) ==
    LET I == {i \in 1..Len(s) : s[i] = c}
    IN IF I = {} THEN 0 ELSE CHOOSE i \in I : \A j \in I : i <= j

Has(s, c) == \E i \in 1..Len(s) : s[i] = c

SplitFail == [ok |-> FALSE, host |-> <<>>, port |-> <<>>]

\* net.SplitHostPort(hostport): the port starts after the last colon; a host
\* in brackets must end right before that colon; no other colon or bracket.
SplitHostPort(hp) ==
    LET i == LastIndex(hp, ":")
        e == FirstIndex(hp, "]")
    IN IF i = 0 THEN SplitFail
       ELSE IF hp[1] = "["
            THEN IF e = 0 \/ e + 1 # i THEN SplitFail
                 ELSE IF Has(SubSeq(hp, 2, Len(hp)), "[")
                         \/ Has(SubSeq(hp, e + 1, Len(hp)), "]")
                      THEN SplitFail
                      ELSE [ok |-> TRUE, host |-> SubSeq(hp, 2, e - 1),
                            port |-> SubSeq(hp, i + 1, Len(hp))]
            ELSE IF Has(SubSeq(hp, 1, i - 1), ":") \/ Has(hp, "[") \/ Has(hp, "]")
                 THEN SplitFail
                 ELSE [ok |-> TRUE, host |-> SubSeq(hp, 1, i - 1),
                       port |-> SubSeq(hp, i + 1, Len(hp))]

DigitVal(c) ==
    CASE c = "0" -> 0 [] c = "1" -> 1 [] c = "2" -> 2 [] c = "3" -> 3
      [] c = "4" -> 4 [] c = "5" -> 5 [] c = "6" -> 6 [] c = "7" -> 7
      [] c = "8" -> 8 [] c = "9" -> 9

RECURSIVE DecVal(_)
DecVal(s) ==
    IF s = <<>> THEN 0
    ELSE 10 * DecVal(SubSeq(s, 1, Len(s) - 1)) + DigitVal(s[Len(s)])

\* strconv.Atoi(s): an optional sign, then one or more decimal digits.
Atoi(s) ==
    LET signed == s # <<>> /\ s[1] \in {"-", "+"}
        d == IF signed THEN Tail(s) ELSE s
    IN IF d = <<>> \/ \E k \in 1..Len(d) : d[k] \notin Digits
       THEN [ok |-> FALSE, n |-> 0]
       ELSE [ok |-> TRUE,
             n |-> IF signed /\ s[1] = "-" THEN 0 - DecVal(d) ELSE DecVal(d)]


(***************************************************************************)
(* State.  Handler configuration, then one entry per request r.            *)
(***************************************************************************)
VARIABLES
    allowedPorts,  \* HTTPConnectHandler.allowedPorts: sequence of integers
    idleTimeout,   \* HTTPConnectHandler.idleTimeout, in ticks; 0 is unset
    env,           \* what the peers of this run may do (never changes)
    handler,       \* what New returned: "none" (not called), "ok", "failed"
    ctor,          \* the arguments New was called with
    pc,            \* where ServeHTTP / intercept is, per request
    req,           \* the request: method, host (target), w (writer kind)
    resp,          \* statuses and bodies written to w, in order
    nextCalls,     \* the requests handed to next.ServeHTTP, in order
    hijacked,      \* Hijack returned the client connection
    dials,         \* results of net.DialTimeout, in order: "ok", "fail"
    up,            \* where the upload task (op.Go) is
    wg,            \* readFinished counter
    gets, puts,    \* buffers.Get / buffers.Put calls
    ubuf, dbuf,    \* bytes read and not yet written, per direction
    upEnd, downEnd,\* how each copy ended: "", "eof", "readErr", "writeErr"
    c2p, d2p,      \* bytes sent by the client / destination, not yet read
    cSent, dSent,  \* number of bytes each peer has sent
    cliEnd, dstEnd,\* peer state: "open", "eof" (closed its side), "reset"
    guard,         \* idle guard of connOut: "off", "armed", "fired", "stopped"
    idle,          \* ticks since the last read or write on connOut
    closeLog,      \* Close calls, in order: <<connection, caller>>
    cWrote, dWrote,\* every byte the client / destination has written
    toDst, toCli,  \* every byte delivered to the destination / client
    pool, made,    \* buffers.pool: free buffers; number of buffers allocated
    upBuf, downBuf,\* the buffer each copy holds (0: none)
    closeRes,      \* results of the Close calls of closeConns, in order
    ret            \* what intercept returned: "" (not yet), "nil", "err"

cfgVars == <<allowedPorts, idleTimeout, env, handler, ctor>>
httpVars == <<req, resp, nextCalls, hijacked, dials>>
taskVars == <<up, wg, gets, puts, ubuf, dbuf, upEnd, downEnd>>
peerVars == <<c2p, d2p, cSent, dSent, cliEnd, dstEnd>>
guardVars == <<guard, idle>>
histVars == <<cWrote, dWrote, toDst, toCli>>
bufVars == <<pool, made, upBuf, downBuf>>
endVars == <<closeRes, ret>>
vars == <<cfgVars, pc, httpVars, taskVars, peerVars, guardVars, closeLog,
          histVars, bufVars, endVars>>

NoReq == [method |-> "", host |-> <<>>, w |-> ""]

Targets == SeqsUpTo(Chars, MaxTargetLen)
AllowLists == SeqsUpTo(PortValues, MaxAllowLen)

\* A target every part of the handler accepts, and one without a port.
GoodTarget == <<"h", ":", "1">>
NoPortTarget == <<"h">>

\* What the peers of a tunnel may do.
PeerMoves == {"ClientSend", "ClientClose", "ClientReset",
              "DestSend", "DestClose", "DestReset"}

\* What a Close call may return.
CloseResults == {"ok", "err"}

\* The populations of peers a run is drawn from: how many requests arrive,
\* which targets they name, how many bytes each peer of a tunnel sends and
\* from which alphabet, what the peers of each session may do, and what the
\* Close calls of closeConns may return.  With two requests the client is the
\* active peer of the first tunnel and the destination that of the second.
Population(e) ==
    CASE e = "auth" -> [reqs |-> 1, targets |-> Targets, bytes |-> 0,
                        alphabet |-> Bytes, moves |-> <<{}>>,
                        closes |-> CloseResults]
      [] e = "relay" -> [reqs |-> 1, targets |-> {GoodTarget, NoPortTarget},
                         bytes |-> MaxBytes, alphabet |-> {"a"},
                         moves |-> <<PeerMoves>>,
                         closes |-> CloseResults]
      [] e = "stream" -> [reqs |-> 1, targets |-> {GoodTarget},
                          bytes |-> 2, alphabet |-> Bytes,
                          moves |-> <<PeerMoves>>,
                          closes |-> {"ok"}]
      [] e = "pair" -> [reqs |-> 2, targets |-> {GoodTarget},
                        bytes |-> 1, alphabet |-> {"a"},
                        moves |-> <<{"ClientSend", "ClientClose", "ClientReset"},
                                    {"DestSend", "DestClose", "DestReset"}>>,
                        closes |-> {"ok"}]
      [] e = "built" -> [reqs |-> 1, targets |-> {GoodTarget, <<"h", ":", "2">>},
                         bytes |-> 0, alphabet |-> {"a"},
                         moves |-> <<{}>>,
                         closes |-> {"ok"}]
PeerReqs == Min(Population(env).reqs, MaxSessions)
\* The requests of a run.
Reqs == 1..PeerReqs
\* The requests of the relay population, of which the fairness conditions and
\* the liveness claims speak.
RelayReqs == 1..Min(Population("relay").reqs, MaxSessions)
PeerTargets == Population(env).targets
PeerBytes == Population(env).bytes
PeerAlphabet == Population(env).alphabet
PeerCloses == Population(env).closes
PeerMay(r, move) == move \in Population(env).moves[r]

InitSessions ==
    /\ pc = [r \in Reqs |-> "idle"]
    /\ req = [r \in Reqs |-> NoReq]
    /\ resp = [r \in Reqs |-> <<>>]
    /\ nextCalls = [r \in Reqs |-> <<>>]
    /\ hijacked = [r \in Reqs |-> FALSE]
    /\ dials = [r \in Reqs |-> <<>>]
    /\ up = [r \in Reqs |-> "none"]
    /\ wg = [r \in Reqs |-> 0]
    /\ gets = [r \in Reqs |-> 0]
    /\ puts = [r \in Reqs |-> 0]
    /\ ubuf = [r \in Reqs |-> <<>>]
    /\ dbuf = [r \in Reqs |-> <<>>]
    /\ upEnd = [r \in Reqs |-> ""]
    /\ downEnd = [r \in Reqs |-> ""]
    /\ c2p = [r \in Reqs |-> <<>>]
    /\ d2p = [r \in Reqs |-> <<>>]
    /\ cSent = [r \in Reqs |-> 0]
    /\ dSent = [r \in Reqs |-> 0]
    /\ cliEnd = [r \in Reqs |-> "open"]
    /\ dstEnd = [r \in Reqs |-> "open"]
    /\ guard = [r \in Reqs |-> "off"]
    /\ idle = [r \in Reqs |-> 0]
    /\ closeLog = [r \in Reqs |-> <<>>]
    /\ cWrote = [r \in Reqs |-> <<>>]
    /\ dWrote = [r \in Reqs |-> <<>>]
    /\ toDst = [r \in Reqs |-> <<>>]
    /\ toCli = [r \in Reqs |-> <<>>]
    /\ pool = {}
    /\ made = 0
    /\ upBuf = [r \in Reqs |-> 0]
    /\ downBuf = [r \in Reqs |-> 0]
    /\ closeRes = [r \in Reqs |-> <<>>]
    /\ ret = [r \in Reqs |-> ""]

\* The arguments of a construction that is not followed step by step.
NoCtor == [next |-> "", setters |-> <<>>]

\* A handler New returned without error.
Constructed ==
    /\ handler = "ok"
    /\ ctor = NoCtor

\* New(next, setters...): the handler after construction, before any request.
InitAuth ==
    /\ env = "auth"
    /\ Constructed
    /\ allowedPorts \in AllowLists
    /\ idleTimeout = 0
    /\ InitSessions

InitRelay ==
    /\ env = "relay"
    /\ Constructed
    /\ allowedPorts \in {<<>>, <<1>>}
    /\ idleTimeout \in 0..MaxTimeout
    /\ InitSessions

Init == InitAuth \/ InitRelay

\* A handler with an idle timeout that serves two requests at once.
InitPair ==
    /\ env = "pair"
    /\ Constructed
    /\ allowedPorts = <<>>
    /\ idleTimeout = 1
    /\ InitSessions

\* A handler without allow-list whose tunnels carry longer streams.
InitStream ==
    /\ env = "stream"
    /\ Constructed
    /\ allowedPorts = <<>>
    /\ idleTimeout \in {0, 1}
    /\ InitSessions

\* No handler yet: New has not been called.
InitNew ==
    /\ env = "built"
    /\ handler = "none"
    /\ ctor = NoCtor
    /\ allowedPorts = <<>>
    /\ idleTimeout = 0
    /\ InitSessions


(***************************************************************************)
(* New and the option setters.                                             *)
(***************************************************************************)
\* The setters a caller may pass to New.
IdleTimeoutSetter(i) ==
    [kind |-> "IdleTimeoutSetter", i |-> i, ports |-> <<>>, csv |-> <<>>]
AllowedPorts(ports) ==
    [kind |-> "AllowedPorts", i |-> 0, ports |-> ports, csv |-> <<>>]
AllowedPortsFromCSV(csv) ==
    [kind |-> "AllowedPortsFromCSV", i |-> 0, ports |-> <<>>, csv |-> csv]

\* The comma-separated strings passed to AllowedPortsFromCSV.
CsvTexts == { <<>>,
              <<"1">>,
              <<"1", "2">>,
              <<"1", ",", "2">>,
              <<"1", ",", "x">>,
              <<"x", ",", "1">>,
              <<"1", ",">>,
              <<"-", "1">> }

Setters == {IdleTimeoutSetter(1), AllowedPorts(<<1>>), AllowedPorts(<<>>)}
               \cup {AllowedPortsFromCSV(c) : c \in CsvTexts}

\* strings.Split(s, ","): the texts between the commas; one empty text for
\* the empty string.
RECURSIVE Split(_)
Split(s) ==
    LET i == FirstIndex(s, ",")
    IN IF i = 0 THEN <<s>>
       ELSE <<SubSeq(s, 1, i - 1)>> \o Split(SubSeq(s, i + 1, Len(s)))

\* Faulty variant of ParseCSV: an entry that is not an integer is skipped.
ParseCSVSkipsBad(csv) ==
    LET fields == Split(csv)
        good == SelectSeq(fields, LAMBDA f : Atoi(f).ok)
    IN [ok |-> TRUE, ports |-> [k \in 1..Len(good) |-> Atoi(good[k]).n]]

\* The loop of AllowedPortsFromCSV: every field through strconv.Atoi into a
\* fresh slice; the first field that fails ends the setter with its error.
ParseCSV(csv) ==
    LET fields == Split(csv)
    IN IF \E k \in 1..Len(fields) : ~Atoi(fields[k]).ok
       THEN [ok |-> FALSE, ports |-> <<>>]
       ELSE [ok |-> TRUE, ports |-> [k \in 1..Len(fields) |-> Atoi(fields[k]).n]]

\* s(f): what one setter does to the handler under construction.
ApplySetter(f, s) ==
    CASE s.kind = "IdleTimeoutSetter" ->
             [ok |-> TRUE, f |-> [f EXCEPT !.idleTimeout = s.i]]
      [] s.kind = "AllowedPorts" ->
             [ok |-> TRUE, f |-> [f EXCEPT !.allowedPorts = s.ports]]
      [] s.kind = "AllowedPortsFromCSV" ->
             LET p == ParseCSV(s.csv)
             IN IF p.ok
                THEN [ok |-> TRUE, f |-> [f EXCEPT !.allowedPorts = p.ports]]
                ELSE [ok |-> FALSE, f |-> f]

\* for _, s := range setters: the setters in order, up to the first error.
RECURSIVE RunSetters(_, _)
RunSetters(f, setters) ==
    IF setters = <<>> THEN [ok |-> TRUE, f |-> f]
    ELSE LET a == ApplySetter(f, Head(setters))
         IN IF a.ok THEN RunSetters(a.f, Tail(setters)) ELSE a

\* &HTTPConnectHandler{next: next}
ZeroHandler == [allowedPorts |-> <<>>, idleTimeout |-> 0]

\* New(next, setters...): no handler without a next handler or when a setter
\* fails.  After a failure allowedPorts and idleTimeout are the fields of the
\* handler New dropped.
New ==
    /\ handler = "none"
    /\ \E next \in {"nil", "next"}, setters \in SeqsUpTo(Setters, MaxSetters) :
         LET b == IF next = "nil" THEN [ok |-> FALSE, f |-> ZeroHandler]
                  ELSE RunSetters(ZeroHandler, setters)
         IN
         /\ handler' = IF b.ok THEN "ok" ELSE "failed"
         /\ allowedPorts' = b.f.allowedPorts
         /\ idleTimeout' = b.f.idleTimeout
         /\ ctor' = [next |-> next, setters |-> setters]
    /\ UNCHANGED <<env, pc, httpVars, taskVars, peerVars, guardVars, closeLog,
                   histVars, bufVars, endVars>>


(***************************************************************************)
(* ServeHTTP, portAllowed, ServeError.                                     *)
(***************************************************************************)
\* Faulty variant of InList: only the first entry is compared.
InListFirstOnly(n, ports) == Len(ports) > 0 /\ ports[1] = n

\* The loop over f.allowedPorts.
InList(n, ports) == \E i \in 1..Len(ports) : ports[i] = n

\* Faulty variant of PortAllowed: the target is parsed before the allow-list
\* is tested for empty.
PortAllowedParsesFirst(ports, host) ==
    LET sp == SplitHostPort(host)
        pn == Atoi(sp.port)
    IN IF ~sp.ok
       THEN [ok |-> FALSE, status |-> StatusBadRequest,
             reason |-> "No port field in Request-URI / Host header"]
       ELSE IF ~pn.ok
       THEN [ok |-> FALSE, status |-> StatusBadRequest, reason |-> "Invalid port"]
       ELSE IF Len(ports) = 0 \/ InList(pn.n, ports)
       THEN [ok |-> TRUE, status |-> 0, reason |-> ""]
       ELSE [ok |-> FALSE, status |-> StatusForbidden, reason |-> "Port not allowed"]

\* Faulty variant of PortAllowed: a port that is no integer is answered with
\* the message of the missing port.
PortAllowedOneMessage(ports, host) ==
    LET sp == SplitHostPort(host)
        pn == Atoi(sp.port)
    IN IF Len(ports) = 0
       THEN [ok |-> TRUE, status |-> 0, reason |-> ""]
       ELSE IF ~sp.ok \/ ~pn.ok
       THEN [ok |-> FALSE, status |-> StatusBadRequest,
             reason |-> "No port field in Request-URI / Host header"]
       ELSE IF InList(pn.n, ports)
       THEN [ok |-> TRUE, status |-> 0, reason |-> ""]
       ELSE [ok |-> FALSE, status |-> StatusForbidden, reason |-> "Port not allowed"]

\* Faulty variant of PortAllowed: the error of strconv.Atoi is ignored and
\* its zero result compared.
PortAllowedIgnoresAtoiError(ports, host) ==
    LET sp == SplitHostPort(host)
        pn == Atoi(sp.port)
    IN IF Len(ports) = 0
       THEN [ok |-> TRUE, status |-> 0, reason |-> ""]
       ELSE IF ~sp.ok
       THEN [ok |-> FALSE, status |-> StatusBadRequest,
             reason |-> "No port field in Request-URI / Host header"]
       ELSE IF InList(pn.n, ports)
       THEN [ok |-> TRUE, status |-> 0, reason |-> ""]
       ELSE [ok |-> FALSE, status |-> StatusForbidden, reason |-> "Port not allowed"]

\* portAllowed(op, w, req): the decision and, when it is refused, the status
\* and reason handed to ServeError.
PortAllowed(ports, host) ==
    LET sp == SplitHostPort(host)
        pn == Atoi(sp.port)
    IN IF Len(ports) = 0
       THEN [ok |-> TRUE, status |-> 0, reason |-> ""]
       ELSE IF ~sp.ok
       THEN [ok |-> FALSE, status |-> StatusBadRequest,
             reason |-> "No port field in Request-URI / Host header"]
       ELSE IF ~pn.ok
       THEN [ok |-> FALSE, status |-> StatusBadRequest, reason |-> "Invalid port"]
       ELSE IF InList(pn.n, ports)
       THEN [ok |-> TRUE, status |-> 0, reason |-> ""]
       ELSE [ok |-> FALSE, status |-> StatusForbidden, reason |-> "Port not allowed"]

\* ServeError(op, w, req, statusCode, reason): w.WriteHeader, then the body.
ServeError(written, statusCode, reason) == Append(written, <<statusCode, reason>>)

\* Faulty variant of IsConnect: every request is taken for a CONNECT.
IsConnectAlways(m) == TRUE

\* The method test of ServeHTTP.
IsConnect(m) == m = "CONNECT"

\* Faulty variant of AfterPortAllowed: the result of portAllowed is not
\* tested.
AfterPortAllowedIntercepts(ok) == "intercept"

\* if f.portAllowed(op, w, req) { f.intercept(op, w, req) }
AfterPortAllowed(ok) == IF ok THEN "intercept" ELSE "done"

\* ServeHTTP(w, req) up to the call of intercept: a request that is not a
\* CONNECT goes to the next handler; a CONNECT is checked by portAllowed.
ServeHTTP(r) ==
    /\ handler = "ok"
    /\ pc[r] = "idle"
    /\ r <= PeerReqs
    /\ \E m \in Methods, t \in PeerTargets, w \in Writers :
         LET rq == [method |-> m, host |-> t, w |-> w]
             pa == PortAllowed(allowedPorts, t)
         IN
         /\ req' = [req EXCEPT ![r] = rq]
         /\ IF ~IsConnect(m)
            THEN /\ nextCalls' = [nextCalls EXCEPT ![r] = Append(@, rq)]
                 /\ pc' = [pc EXCEPT ![r] = "done"]
                 /\ resp' = resp
            ELSE /\ resp' = IF pa.ok THEN resp
                            ELSE [resp EXCEPT ![r] = ServeError(@, pa.status, pa.reason)]
                 /\ pc' = [pc EXCEPT ![r] = AfterPortAllowed(pa.ok)]
                 /\ nextCalls' = nextCalls
    /\ UNCHANGED <<cfgVars, histVars, bufVars, endVars, hijacked, dials, taskVars, peerVars, guardVars, closeLog>>

(***************************************************************************)
(* intercept: establishing the tunnel.                                     *)
(***************************************************************************)
\* utils.RespondOK(w, req) writes the success status, without a body.
UtilsRespondOK(written) == Append(written, <<StatusOK, "">>)

\* utils.RespondBadGateway(w, req, desc) writes 502 and the description.
UtilsRespondBadGateway(written, desc) == Append(written, <<StatusBadGateway, desc>>)

\* Faulty variant of RespondOK: the hijack is tried before the success
\* status is written.
RespondOKSkipped(r) ==
    /\ pc[r] = "intercept"
    /\ pc' = [pc EXCEPT ![r] = "hijack"]
    /\ UNCHANGED <<cfgVars, histVars, bufVars, endVars, httpVars, taskVars, peerVars,
                   guardVars, closeLog>>

\* The first statement of intercept: the success status goes out before the
\* hijack is tried.
RespondOK(r) ==
    /\ pc[r] = "intercept"
    /\ resp' = [resp EXCEPT ![r] = UtilsRespondOK(@)]
    /\ pc' = [pc EXCEPT ![r] = "hijack"]
    /\ UNCHANGED <<cfgVars, histVars, bufVars, endVars, req, nextCalls, hijacked, dials, taskVars, peerVars,
                   guardVars, closeLog>>

\* w.(http.Hijacker).Hijack(): the type assertion has no ok-form, so a writer
\* that is no Hijacker panics; Hijack itself may return an error, answered
\* with utils.RespondBadGateway.
Hijack(r) ==
    /\ pc[r] = "hijack"
    /\ IF req[r].w # "hijacker"
       THEN /\ pc' = [pc EXCEPT ![r] = "panic"]
            /\ UNCHANGED <<resp, hijacked>>
       ELSE \E ok \in BOOLEAN :
              IF ok
              THEN /\ hijacked' = [hijacked EXCEPT ![r] = TRUE]
                   /\ pc' = [pc EXCEPT ![r] = "dial"]
                   /\ resp' = resp
              ELSE /\ resp' = [resp EXCEPT ![r] =
                                  UtilsRespondBadGateway(@, "Unable to hijack connection")]
                   /\ pc' = [pc EXCEPT ![r] = "done"]
                   /\ hijacked' = hijacked
    /\ ret' = [ret EXCEPT ![r] = IF pc'[r] = "done" THEN "err" ELSE @]
    /\ UNCHANGED <<cfgVars, histVars, bufVars, closeRes, req, nextCalls, dials, taskVars, peerVars, guardVars, closeLog>>

\* Faulty variant of Abandon: the failed dial closes the hijacked client
\* connection.
AbandonClosing(r) ==
    /\ pc' = [pc EXCEPT ![r] = "done"]
    /\ closeLog' = [closeLog EXCEPT ![r] = Append(@, <<"client", "intercept">>)]
    /\ UNCHANGED <<guard, wg, up>>

\* The dial failed: op.Errorf, return.  Nothing is written, nothing closed.
Abandon(r) ==
    /\ pc' = [pc EXCEPT ![r] = "done"]
    /\ UNCHANGED <<guard, wg, up, closeLog>>

\* The dial succeeded: idletiming.Conn wraps the connection (armed when the
\* timeout is set), readFinished.Add(1), op.Go starts the upload task.
Establish(r) ==
    /\ guard' = [guard EXCEPT ![r] = IF idleTimeout > 0 THEN "armed" ELSE "off"]
    /\ wg' = [wg EXCEPT ![r] = @ + 1]
    /\ up' = [up EXCEPT ![r] = "get"]
    /\ pc' = [pc EXCEPT ![r] = "get"]
    /\ closeLog' = closeLog

\* net.DialTimeout("tcp", req.Host, 10s): it cannot succeed on a target that
\* does not split into host and port.
Dial(r) ==
    /\ pc[r] = "dial"
    /\ \E ok \in BOOLEAN :
         /\ ok => SplitHostPort(req[r].host).ok
         /\ dials' = [dials EXCEPT ![r] = Append(@, IF ok THEN "ok" ELSE "fail")]
         /\ IF ok THEN Establish(r) ELSE Abandon(r)
         /\ ret' = [ret EXCEPT ![r] = IF ok THEN @ ELSE "err"]
    /\ UNCHANGED <<cfgVars, histVars, bufVars, closeRes, req, resp, nextCalls, hijacked, gets, puts, ubuf, dbuf,
                   upEnd, downEnd, peerVars, idle>>

(***************************************************************************)
(* The two connections of a tunnel.                                        *)
(***************************************************************************)
CloseCount(r, conn) ==
    Cardinality({i \in 1..Len(closeLog[r]) : closeLog[r][i][1] = conn})

ClosedBy(r, conn, who) ==
    \E i \in 1..Len(closeLog[r]) : closeLog[r][i] = <<conn, who>>

ClientClosed(r) == CloseCount(r, "client") > 0
OutClosed(r) == CloseCount(r, "out") > 0

\* One Read of io.CopyBuffer: what a Read on a connection returns, given the
\* bytes waiting, the peer's state and whether this end was closed.
\* "block" means the call does not return yet.
ReadResult(waiting, peer, closedHere) ==
    IF closedHere THEN "readErr"
    ELSE IF waiting # <<>> THEN "data"
    ELSE IF peer = "eof" THEN "eof"
    ELSE IF peer = "reset" THEN "readErr"
    ELSE "block"

\* One Write of io.CopyBuffer: an error when this end was closed or the peer
\* has reset the connection.
WriteFails(peer, closedHere) == closedHere \/ peer = "reset"

Chunk(waiting) == SubSeq(waiting, 1, Min(Len(waiting), BufSize))
Rest(waiting) == SubSeq(waiting, Min(Len(waiting), BufSize) + 1, Len(waiting))

\* The idle guard sees a read or write on connOut.
Touch(r) == idle' = [idle EXCEPT ![r] = 0]

\* Faulty variant of UpDst: the upload copy writes back to the client.
UpDstEcho == "client"

\* Faulty variant of DownSrc: the download copy reads the client connection.
DownSrcClient == "client"

\* io.CopyBuffer(connOut, clientConn, buf): the upload copy reads the client
\* connection and writes the outbound one.
UpSrc == "client"
UpDst == "out"

\* io.CopyBuffer(clientConn, connOut, buf): the download copy reads the
\* outbound connection and writes the client one.
DownSrc == "out"
DownDst == "client"

\* What a connection of session r has waiting to be read, the state of its
\* far end, and whether the handler has closed it.
Incoming(r, conn) == IF conn = "client" THEN c2p[r] ELSE d2p[r]
FarEnd(r, conn) == IF conn = "client" THEN cliEnd[r] ELSE dstEnd[r]
IsClosed(r, conn) == CloseCount(r, conn) > 0

\* src.Read(buf) took a chunk off the connection.
Consume(r, conn) ==
    /\ c2p' = IF conn = "client" THEN [c2p EXCEPT ![r] = Rest(@)] ELSE c2p
    /\ d2p' = IF conn = "out" THEN [d2p EXCEPT ![r] = Rest(@)] ELSE d2p

\* dst.Write(buf[0:n]) handed the chunk to the far end of the connection.
Deliver(r, conn, data) ==
    /\ toDst' = IF conn = "out" THEN [toDst EXCEPT ![r] = @ \o data] ELSE toDst
    /\ toCli' = IF conn = "client" THEN [toCli EXCEPT ![r] = @ \o data] ELSE toCli

\* Only connOut is wrapped by idletiming.Conn.
Activity(r, conn) == IF conn = "out" THEN Touch(r) ELSE idle' = idle

\* buffers.Get(): a free buffer of the pool, or a new one when none is free.
BuffersGet(free, n) ==
    IF free = {}
    THEN [buf |-> n + 1, free |-> free, made |-> n + 1]
    ELSE LET b == CHOOSE x \in free : \A y \in free : x <= y
         IN [buf |-> b, free |-> free \ {b}, made |-> n]

\* buffers.Put(buf): the buffer is free again.
BuffersPut(free, b) == free \cup {b}

(***************************************************************************)
(* The upload task: io.CopyBuffer(connOut, clientConn, buf) under op.Go.   *)
(***************************************************************************)
\* buf := buffers.Get()
UpGet(r) ==
    LET g == BuffersGet(pool, made) IN
    /\ up[r] = "get"
    /\ gets' = [gets EXCEPT ![r] = @ + 1]
    /\ upBuf' = [upBuf EXCEPT ![r] = g.buf]
    /\ pool' = g.free
    /\ made' = g.made
    /\ up' = [up EXCEPT ![r] = "read"]
    /\ UNCHANGED <<cfgVars, histVars, downBuf, endVars, pc, httpVars, wg, puts, ubuf, dbuf, upEnd,
                   downEnd, peerVars, guardVars, closeLog>>

\* clientConn.Read
UpRead(r) ==
    LET res == ReadResult(Incoming(r, UpSrc), FarEnd(r, UpSrc), IsClosed(r, UpSrc)) IN
    /\ up[r] = "read"
    /\ res # "block"
    /\ IF res = "data"
       THEN /\ ubuf' = [ubuf EXCEPT ![r] = Chunk(Incoming(r, UpSrc))]
            /\ Consume(r, UpSrc)
            /\ Activity(r, UpSrc)
            /\ up' = [up EXCEPT ![r] = "write"]
            /\ upEnd' = upEnd
       ELSE /\ upEnd' = [upEnd EXCEPT ![r] = res]
            /\ up' = [up EXCEPT ![r] = "signal"]
            /\ UNCHANGED <<ubuf, c2p, d2p, idle>>
    /\ UNCHANGED <<cfgVars, histVars, bufVars, endVars, pc, httpVars, wg, gets, puts, dbuf, downEnd,
                   cSent, dSent, cliEnd, dstEnd, guard, closeLog>>

\* connOut.Write
UpWrite(r) ==
    /\ up[r] = "write"
    /\ ubuf' = [ubuf EXCEPT ![r] = <<>>]
    /\ IF WriteFails(FarEnd(r, UpDst), IsClosed(r, UpDst))
       THEN /\ upEnd' = [upEnd EXCEPT ![r] = "writeErr"]
            /\ up' = [up EXCEPT ![r] = "signal"]
            /\ UNCHANGED <<idle, toDst, toCli>>
       ELSE /\ up' = [up EXCEPT ![r] = "read"]
            /\ Deliver(r, UpDst, ubuf[r])
            /\ Activity(r, UpDst)
            /\ upEnd' = upEnd
    /\ UNCHANGED <<cfgVars, cWrote, dWrote, bufVars, endVars, pc, httpVars, wg, gets, puts, dbuf,
                   downEnd, peerVars, guard, closeLog>>

\* readFinished.Done()
UpDone(r) ==
    /\ up[r] = "signal"
    /\ wg' = [wg EXCEPT ![r] = @ - 1]
    /\ up' = [up EXCEPT ![r] = "put"]
    /\ UNCHANGED <<cfgVars, histVars, bufVars, endVars, pc, httpVars, gets, puts, ubuf, dbuf, upEnd, downEnd,
                   peerVars, guardVars, closeLog>>

\* defer buffers.Put(buf)
UpPut(r) ==
    /\ up[r] = "put"
    /\ puts' = [puts EXCEPT ![r] = @ + 1]
    /\ pool' = BuffersPut(pool, upBuf[r])
    /\ upBuf' = [upBuf EXCEPT ![r] = 0]
    /\ up' = [up EXCEPT ![r] = "exit"]
    /\ UNCHANGED <<cfgVars, histVars, made, downBuf, endVars, pc, httpVars, wg, gets, ubuf, dbuf,
                   upEnd, downEnd, peerVars, guardVars, closeLog>>

(***************************************************************************)
(* The calling path: io.CopyBuffer(clientConn, connOut, buf), then         *)
(* readFinished.Wait(), closeConns(), return.                              *)
(***************************************************************************)
\* buf := buffers.Get()
DownGet(r) ==
    LET g == BuffersGet(pool, made) IN
    /\ pc[r] = "get"
    /\ gets' = [gets EXCEPT ![r] = @ + 1]
    /\ downBuf' = [downBuf EXCEPT ![r] = g.buf]
    /\ pool' = g.free
    /\ made' = g.made
    /\ pc' = [pc EXCEPT ![r] = "read"]
    /\ UNCHANGED <<cfgVars, histVars, upBuf, endVars, httpVars, up, wg, puts, ubuf, dbuf, upEnd,
                   downEnd, peerVars, guardVars, closeLog>>

\* connOut.Read
DownRead(r) ==
    LET res == ReadResult(Incoming(r, DownSrc), FarEnd(r, DownSrc), IsClosed(r, DownSrc)) IN
    /\ pc[r] = "read"
    /\ res # "block"
    /\ IF res = "data"
       THEN /\ dbuf' = [dbuf EXCEPT ![r] = Chunk(Incoming(r, DownSrc))]
            /\ Consume(r, DownSrc)
            /\ Activity(r, DownSrc)
            /\ pc' = [pc EXCEPT ![r] = "write"]
            /\ downEnd' = downEnd
       ELSE /\ downEnd' = [downEnd EXCEPT ![r] = res]
            /\ pc' = [pc EXCEPT ![r] = "wait"]
            /\ UNCHANGED <<dbuf, c2p, d2p, idle>>
    /\ UNCHANGED <<cfgVars, histVars, bufVars, endVars, httpVars, up, wg, gets, puts, ubuf, upEnd,
                   cSent, dSent, cliEnd, dstEnd, guard, closeLog>>

\* clientConn.Write
DownWrite(r) ==
    /\ pc[r] = "write"
    /\ dbuf' = [dbuf EXCEPT ![r] = <<>>]
    /\ IF WriteFails(FarEnd(r, DownDst), IsClosed(r, DownDst))
       THEN /\ downEnd' = [downEnd EXCEPT ![r] = "writeErr"]
            /\ pc' = [pc EXCEPT ![r] = "wait"]
            /\ UNCHANGED <<idle, toDst, toCli>>
       ELSE /\ pc' = [pc EXCEPT ![r] = "read"]
            /\ Deliver(r, DownDst, dbuf[r])
            /\ Activity(r, DownDst)
            /\ downEnd' = downEnd
    /\ UNCHANGED <<cfgVars, cWrote, dWrote, bufVars, endVars, httpVars, up, wg, gets, puts, ubuf,
                   upEnd, peerVars, guard, closeLog>>

\* Faulty variant of WaitReturns: one counter for all sessions of the handler.
WaitReturnsShared(r) == \A q \in Reqs : wg[q] = 0

\* Faulty variant of WaitReturns: no waiting for the upload task.
WaitReturnsAtOnce(r) == TRUE

\* readFinished.Wait() returns once the counter is zero.
WaitReturns(r) == wg[r] = 0

Wait(r) ==
    /\ pc[r] = "wait"
    /\ WaitReturns(r)
    /\ pc' = [pc EXCEPT ![r] = "close"]
    /\ UNCHANGED <<cfgVars, histVars, bufVars, endVars, httpVars, taskVars, peerVars, guardVars, closeLog>>

\* closeConns(): clientConn.Close(), then connOut.Close(), which stops the
\* idle guard and closes the raw connection.
\* closeConns goes on to connOut.Close() whatever clientConn.Close() returned:
\* the error is logged only.
ClosesOut(first) == TRUE

CloseConns(r) ==
    /\ pc[r] = "close"
    /\ \E e1 \in PeerCloses, e2 \in PeerCloses :
         IF ClosesOut(e1)
         THEN /\ closeLog' = [closeLog EXCEPT ![r] =
                                @ \o <<<<"client", "closeConns">>, <<"out", "closeConns">>>>]
              /\ closeRes' = [closeRes EXCEPT ![r] = <<e1, e2>>]
              /\ guard' = [guard EXCEPT ![r] = IF @ = "armed" THEN "stopped" ELSE @]
         ELSE /\ closeLog' = [closeLog EXCEPT ![r] = Append(@, <<"client", "closeConns">>)]
              /\ closeRes' = [closeRes EXCEPT ![r] = <<e1>>]
              /\ guard' = guard
    /\ pc' = [pc EXCEPT ![r] = "return"]
    /\ UNCHANGED <<cfgVars, histVars, bufVars, ret, httpVars, taskVars, peerVars, idle>>

\* return, running the deferred buffers.Put(buf).
\* The named result err still holds the nil of the dial: the errors of the
\* copies and of the Close calls live in variables of their own.
Return(r) ==
    /\ pc[r] = "return"
    /\ puts' = [puts EXCEPT ![r] = @ + 1]
    /\ pool' = BuffersPut(pool, downBuf[r])
    /\ downBuf' = [downBuf EXCEPT ![r] = 0]
    /\ ret' = [ret EXCEPT ![r] = "nil"]
    /\ pc' = [pc EXCEPT ![r] = "done"]
    /\ UNCHANGED <<cfgVars, histVars, made, upBuf, closeRes, httpVars, up, wg, gets, ubuf, dbuf,
                   upEnd, downEnd, peerVars, guardVars, closeLog>>


(***************************************************************************)
(* The idle guard: idletiming.Conn(connOutRaw, f.idleTimeout, callback).   *)
(***************************************************************************)
\* One tick of time without a read or write on connOut.
Tick(r) ==
    /\ guard[r] = "armed"
    /\ idle[r] < idleTimeout
    /\ idle' = [idle EXCEPT ![r] = @ + 1]
    /\ UNCHANGED <<cfgVars, histVars, bufVars, endVars, pc, httpVars, taskVars, peerVars, guard, closeLog>>

\* The timeout has passed: the guard closes the connection and runs the
\* callback, which calls connOutRaw.Close().
IdleFire(r) ==
    /\ guard[r] = "armed"
    /\ idle[r] >= idleTimeout
    /\ closeLog' = [closeLog EXCEPT ![r] =
                       @ \o <<<<"out", "guard">>, <<"out", "callback">>>>]
    /\ guard' = [guard EXCEPT ![r] = "fired"]
    /\ UNCHANGED <<cfgVars, histVars, bufVars, endVars, pc, httpVars, taskVars, peerVars, idle>>

(***************************************************************************)
(* The peers of a tunnel.                                                  *)
(***************************************************************************)
\* intercept has the client connection and has not returned.
InSession(r) == hijacked[r] /\ pc[r] \notin {"done", "panic"}
\* The outbound connection exists and intercept has not returned.
Connected(r) == InSession(r) /\ up[r] # "none"

ClientSend(r) ==
    /\ PeerMay(r, "ClientSend")
    /\ InSession(r)
    /\ cliEnd[r] = "open"
    /\ cSent[r] < PeerBytes
    /\ \E b \in PeerAlphabet : /\ c2p' = [c2p EXCEPT ![r] = Append(@, b)]
                        /\ cWrote' = [cWrote EXCEPT ![r] = Append(@, b)]
    /\ cSent' = [cSent EXCEPT ![r] = @ + 1]
    /\ UNCHANGED <<cfgVars, dWrote, toDst, toCli, bufVars, endVars, pc, httpVars, taskVars, d2p, dSent, cliEnd, dstEnd,
                   guardVars, closeLog>>

\* The client closes its side: the proxy reads end-of-stream.
ClientClose(r) ==
    /\ PeerMay(r, "ClientClose")
    /\ InSession(r)
    /\ cliEnd[r] = "open"
    /\ cliEnd' = [cliEnd EXCEPT ![r] = "eof"]
    /\ UNCHANGED <<cfgVars, histVars, bufVars, endVars, pc, httpVars, taskVars, c2p, d2p, cSent, dSent, dstEnd,
                   guardVars, closeLog>>

\* The client's connection breaks: reads and writes on it fail.
ClientReset(r) ==
    /\ PeerMay(r, "ClientReset")
    /\ InSession(r)
    /\ cliEnd[r] \in {"open", "eof"}
    /\ cliEnd' = [cliEnd EXCEPT ![r] = "reset"]
    /\ c2p' = [c2p EXCEPT ![r] = <<>>]
    /\ UNCHANGED <<cfgVars, histVars, bufVars, endVars, pc, httpVars, taskVars, d2p, cSent, dSent, dstEnd,
                   guardVars, closeLog>>

DestSend(r) ==
    /\ PeerMay(r, "DestSend")
    /\ Connected(r)
    /\ dstEnd[r] = "open"
    /\ dSent[r] < PeerBytes
    /\ \E b \in PeerAlphabet : /\ d2p' = [d2p EXCEPT ![r] = Append(@, b)]
                        /\ dWrote' = [dWrote EXCEPT ![r] = Append(@, b)]
    /\ dSent' = [dSent EXCEPT ![r] = @ + 1]
    /\ UNCHANGED <<cfgVars, cWrote, toDst, toCli, bufVars, endVars, pc, httpVars, taskVars, c2p, cSent, cliEnd, dstEnd,
                   guardVars, closeLog>>

DestClose(r) ==
    /\ PeerMay(r, "DestClose")
    /\ Connected(r)
    /\ dstEnd[r] = "open"
    /\ dstEnd' = [dstEnd EXCEPT ![r] = "eof"]
    /\ UNCHANGED <<cfgVars, histVars, bufVars, endVars, pc, httpVars, taskVars, c2p, d2p, cSent, dSent, cliEnd,
                   guardVars, closeLog>>

DestReset(r) ==
    /\ PeerMay(r, "DestReset")
    /\ Connected(r)
    /\ dstEnd[r] \in {"open", "eof"}
    /\ dstEnd' = [dstEnd EXCEPT ![r] = "reset"]
    /\ d2p' = [d2p EXCEPT ![r] = <<>>]
    /\ UNCHANGED <<cfgVars, histVars, bufVars, endVars, pc, httpVars, taskVars, c2p, cSent, dSent, cliEnd,
                   guardVars, closeLog>>

(***************************************************************************)
(* Specifications.                                                         *)
(***************************************************************************)
\* The steps of the calling path of request r, of its upload task, of its
\* idle guard, and of its peers.
Main(r) ==
    \/ RespondOK(r) \/ Hijack(r) \/ Dial(r) \/ DownGet(r) \/ DownRead(r)
    \/ DownWrite(r) \/ Wait(r) \/ CloseConns(r) \/ Return(r)

Upload(r) == UpGet(r) \/ UpRead(r) \/ UpWrite(r) \/ UpDone(r) \/ UpPut(r)

Guard(r) == Tick(r) \/ IdleFire(r)

Peer(r) ==
    \/ ClientSend(r) \/ ClientClose(r) \/ ClientReset(r)
    \/ DestSend(r) \/ DestClose(r) \/ DestReset(r)

Next == \E r \in Reqs : ServeHTTP(r) \/ Main(r) \/ Upload(r) \/ Guard(r) \/ Peer(r)

Spec == Init /\ [][Next]_vars

SpecStream == InitStream /\ [][Next]_vars

SpecPair == InitPair /\ [][Next]_vars

\* Handlers under construction next to handlers in service.
NextNew == New \/ Next
SpecNew == (InitNew \/ InitRelay) /\ [][NextNew]_vars

\* The scheduler runs every goroutine that can run, and time passes; the
\* peers owe nothing.
Fairness ==
    \A r \in RelayReqs : WF_vars(Main(r)) /\ WF_vars(Upload(r)) /\ WF_vars(Guard(r))

FairSpec == InitRelay /\ [][Next]_vars /\ Fairness

TypeOK ==
    /\ env \in {"auth", "relay", "stream", "pair", "built"}
    /\ handler \in {"none", "ok", "failed"}
    /\ Len(ctor.setters) <= MaxSetters
    /\ idleTimeout \in 0..MaxTimeout
    /\ pool \subseteq 1..made
    /\ \A r \in Reqs :
         /\ upBuf[r] \in 0..made /\ downBuf[r] \in 0..made
         /\ ret[r] \in {"", "nil", "err"}
         /\ Len(closeRes[r]) <= 2
         /\ cWrote[r] \in Seq(Bytes) /\ dWrote[r] \in Seq(Bytes)
         /\ toDst[r] \in Seq(Bytes) /\ toCli[r] \in Seq(Bytes)
         /\ pc[r] \in {"idle", "intercept", "hijack", "dial", "get", "read", "write",
                       "wait", "close", "return", "done", "panic"}
         /\ up[r] \in {"none", "get", "read", "write", "signal", "put", "exit"}
         /\ wg[r] \in 0..1
         /\ guard[r] \in {"off", "armed", "fired", "stopped"}
         /\ idle[r] \in 0..idleTimeout
         /\ Len(ubuf[r]) <= BufSize /\ Len(dbuf[r]) <= BufSize


(***************************************************************************)
(* Claims.                                                                 *)
(***************************************************************************)
\* A tunnel was established for r (the dial succeeded).
Tunnel(r) == dials[r] = <<"ok">>
\* intercept has returned from an established tunnel.
Terminated(r) == Tunnel(r) /\ pc[r] = "done"
BothClosed(r) == ClientClosed(r) /\ OutClosed(r)
\* A copy loop of r is inside io.CopyBuffer.
UpCopying(r) == up[r] \in {"read", "write"}
DownCopying(r) == Tunnel(r) /\ pc[r] \in {"read", "write"}

\* C1: after a tunnel session has terminated, by whatever cause, the client
\* connection and the outbound connection have each been closed exactly
\* once.
C1_ClosedExactlyOnce ==
    \A r \in Reqs :
        Terminated(r) => CloseCount(r, "client") = 1 /\ CloseCount(r, "out") = 1

\* C2: once either copy loop has returned, both connections are eventually
\* closed, whatever the peers do or do not do afterwards.
C2_EitherEndLeadsToClose ==
    \A r \in RelayReqs : (upEnd[r] # "" \/ downEnd[r] # "") ~> BothClosed(r)

\* C3: once the outbound connection has been idle for the timeout it is
\* force-closed and intercept returns, even with a silent client; and the
\* guard closes nothing before a full timeout without a read or write.
C3_IdleTimeoutEndsSession ==
    /\ \A r \in RelayReqs :
          (guard[r] = "armed" /\ idle[r] >= idleTimeout)
              ~> (ClosedBy(r, "out", "guard") /\ pc[r] = "done")
    /\ [][\A r \in Reqs :
             ~ClosedBy(r, "out", "guard") /\ ClosedBy(r, "out", "guard")'
                 => idle[r] >= idleTimeout /\ idleTimeout > 0]_vars

\* C4 as stated: whenever either connection of a session is closed, neither
\* copy loop of the session is still executing.
C4_NoCopyOnClosed ==
    \A r \in Reqs :
        (ClientClosed(r) \/ OutClosed(r)) => ~UpCopying(r) /\ ~DownCopying(r)

\* C4 as amended: closeConns runs only after the upload task has signalled
\* completion and the download copy has returned, so whenever the client
\* connection is closed, or the outbound connection was closed by closeConns,
\* neither copy loop is executing.  (The idle guard closes the outbound
\* connection under the running loops.)
C4_TeardownAfterBothLoops ==
    \A r \in Reqs :
        (ClientClosed(r) \/ ClosedBy(r, "out", "closeConns"))
            => /\ up[r] \in {"put", "exit"}
               /\ pc[r] \in {"return", "done"}
               /\ upEnd[r] # "" /\ downEnd[r] # ""
               /\ wg[r] = 0

\* closeConns has run in a session whose outbound connection the idle guard
\* had closed first.
C4_Witness ==
    \E r \in Reqs :
        /\ ClosedBy(r, "out", "closeConns")
        /\ closeLog[r][1] = <<"out", "guard">>
        /\ pc[r] = "return"


(***************************************************************************)
(* Claims about ServeHTTP, portAllowed and the start of intercept.         *)
(***************************************************************************)
\* What the claims say of a target, read off its text.
NoPort(t) == ~Has(t, ":")
PortText(t) == SubSeq(t, LastIndex(t, ":") + 1, Len(t))
IsInteger(s) ==
    LET d == IF s # <<>> /\ s[1] \in {"+", "-"} THEN Tail(s) ELSE s
    IN d # <<>> /\ \A k \in 1..Len(d) : d[k] \in Digits
NonNumericPort(t) == Has(t, ":") /\ ~IsInteger(PortText(t))
\* The target splits into host and port and the port is an integer.
WellFormed(t) == SplitHostPort(t).ok /\ Atoi(SplitHostPort(t).port).ok
ParsedPort(t) == Atoi(SplitHostPort(t).port).n
Entries == {allowedPorts[i] : i \in 1..Len(allowedPorts)}

IsConnectReq(r) == req[r].method = "CONNECT"
HasStatus(r, st) == \E i \in 1..Len(resp[r]) : resp[r][i][1] = st
\* No tunnel for r: no success status, no hijack, no dial, no copy task.
NoTunnel(r) ==
    /\ ~HasStatus(r, StatusOK)
    /\ ~hijacked[r]
    /\ dials[r] = <<>>
    /\ up[r] = "none"
\* r was answered with status st and a reason, and nothing else happened.
Refused(r, st) ==
    /\ pc[r] = "done"
    /\ Len(resp[r]) = 1 /\ resp[r][1][1] = st /\ resp[r][1][2] # ""
    /\ NoTunnel(r)
\* portAllowed let r through: intercept was entered and the port
\* authorizer wrote no error.
Authorized(r) ==
    /\ ~HasStatus(r, StatusBadRequest) /\ ~HasStatus(r, StatusForbidden)
    /\ pc[r] = "intercept" \/ (resp[r] # <<>> /\ resp[r][1] = <<StatusOK, "">>)

\* C5 as stated: a CONNECT whose target has no port or a non-numeric port is
\* answered 400 and gets no tunnel, whatever the allow-list.
C5_BadPortIs400 ==
    \A r \in Reqs :
        IsConnectReq(r) /\ (NoPort(req[r].host) \/ NonNumericPort(req[r].host))
            => Refused(r, StatusBadRequest)

\* C5 as amended: with a non-empty allow-list, a CONNECT whose target has no
\* port or a non-numeric port is answered 400 and gets no tunnel.
C5_BadPortIs400WithAllowList ==
    \A r \in Reqs :
        /\ IsConnectReq(r)
        /\ Len(allowedPorts) > 0
        /\ NoPort(req[r].host) \/ NonNumericPort(req[r].host)
        => Refused(r, StatusBadRequest)

\* A CONNECT with a colon and a port that is no integer was answered 400.
C5_Witness ==
    \E r \in Reqs :
        /\ IsConnectReq(r) /\ Len(allowedPorts) > 0
        /\ NonNumericPort(req[r].host) /\ SplitHostPort(req[r].host).ok
        /\ Refused(r, StatusBadRequest)

\* C6: with a non-empty allow-list and a well-formed target, a CONNECT is
\* authorized iff its port is an entry of the allow-list; otherwise it is
\* answered 403 with a reason and gets no tunnel.
C6_AuthorizedIffListed ==
    \A r \in Reqs :
        IsConnectReq(r) /\ Len(allowedPorts) > 0 /\ WellFormed(req[r].host)
            => /\ ParsedPort(req[r].host) \in Entries <=> Authorized(r)
               /\ ParsedPort(req[r].host) \notin Entries => Refused(r, StatusForbidden)

\* A CONNECT authorized by the second of two different entries.
C6_Witness ==
    \E r \in Reqs :
        /\ IsConnectReq(r) /\ WellFormed(req[r].host)
        /\ Len(allowedPorts) = 2 /\ allowedPorts[1] # allowedPorts[2]
        /\ ParsedPort(req[r].host) = allowedPorts[2]
        /\ Authorized(r)

\* C7: with an empty allow-list every CONNECT is authorized, whatever its
\* target, and goes on to tunnel establishment.
C7_EmptyListAllowsAll ==
    \A r \in Reqs :
        IsConnectReq(r) /\ Len(allowedPorts) = 0 => Authorized(r)

\* A CONNECT without a port got the success status under an empty allow-list.
C7_Witness ==
    \E r \in Reqs :
        /\ IsConnectReq(r) /\ Len(allowedPorts) = 0 /\ NoPort(req[r].host)
        /\ HasStatus(r, StatusOK)

\* C8: a request that is not a CONNECT is handed to the next handler exactly
\* once, as it came, and this handler writes nothing, hijacks nothing, dials
\* nothing and relays nothing.
C8_NonConnectPassesThrough ==
    \A r \in Reqs :
        pc[r] # "idle" /\ ~IsConnectReq(r)
            => /\ nextCalls[r] = <<req[r]>>
               /\ pc[r] = "done"
               /\ resp[r] = <<>>
               /\ NoTunnel(r)
               /\ gets[r] = 0 /\ closeLog[r] = <<>>

\* A GET without a port passed through a handler with an allow-list.
C8_Witness ==
    \E r \in Reqs :
        /\ req[r].method = "GET" /\ NoPort(req[r].host) /\ Len(allowedPorts) > 0
        /\ nextCalls[r] = <<req[r]>>

\* The hijack of r was attempted and did not deliver the connection.
HijackFailed(r) ==
    /\ pc[r] \in {"done", "panic"}
    /\ HasStatus(r, StatusOK)
    /\ ~hijacked[r]

\* C9: when the client connection cannot be taken over, also when the writer
\* is no Hijacker at all, the handler answers 502 and returns, without a
\* dial and without a panic.
C9_HijackFailureIs502 ==
    \A r \in Reqs :
        HijackFailed(r)
            => /\ pc[r] = "done"
               /\ resp[r][Len(resp[r])][1] = StatusBadGateway
               /\ dials[r] = <<>>

\* The dial of r failed.
DialFailed(r) == hijacked[r] /\ dials[r] = <<"fail">>

\* C10: when the dial fails after the hijack, intercept returns without a
\* copy task, without a buffer, without an error response, and without
\* closing the client connection.
C10_DialFailureAbandons ==
    \A r \in Reqs :
        DialFailed(r)
            => /\ pc[r] = "done"
               /\ up[r] = "none" /\ upEnd[r] = "" /\ downEnd[r] = ""
               /\ gets[r] = 0
               /\ resp[r] = <<<<StatusOK, "">>>>
               /\ closeLog[r] = <<>>

\* The dial failed on a target that does split into host and port.
C10_Witness ==
    \E r \in Reqs :
        DialFailed(r) /\ SplitHostPort(req[r].host).ok /\ pc[r] = "done"

\* p is a prefix of s.
IsPrefix(p, s) == Len(p) <= Len(s) /\ SubSeq(s, 1, Len(p)) = p

\* C11: at every point of a session the bytes delivered to the destination
\* are a prefix of the bytes the client wrote into the tunnel, and the bytes
\* delivered to the client a prefix of the bytes the destination wrote:
\* nothing is reordered, duplicated, dropped in the middle or altered, also
\* with both directions interleaved.
C11_RelayDeliversPrefix ==
    \A r \in Reqs :
        /\ IsPrefix(toDst[r], cWrote[r])
        /\ IsPrefix(toCli[r], dWrote[r])

\* Both directions of one tunnel have carried two different bytes.
C11_Witness ==
    \E r \in Reqs :
        /\ Tunnel(r)
        /\ Len(toDst[r]) = 2 /\ toDst[r][1] # toDst[r][2]
        /\ Len(toCli[r]) = 2 /\ toCli[r][1] # toCli[r][2]
        /\ toDst[r] # toCli[r]

\* The tasks of session r that are inside a Read, or inside a Write, on the
\* connection conn.
ReadersOf(r, conn) ==
    {t \in {"upload"} : up[r] = "read" /\ UpSrc = conn}
        \cup {t \in {"download"} : pc[r] = "read" /\ DownSrc = conn}
WritersOf(r, conn) ==
    {t \in {"upload"} : up[r] = "write" /\ UpDst = conn}
        \cup {t \in {"download"} : pc[r] = "write" /\ DownDst = conn}

\* C17: in a session the client connection is read only by the upload task
\* and written only by the download path, the outbound connection is read
\* only by the download path and written only by the upload task; no state
\* has two tasks reading, or two tasks writing, the same connection.
C17_OneTaskPerHalf ==
    \A r \in Reqs :
        /\ ReadersOf(r, "client") \subseteq {"upload"}
        /\ WritersOf(r, "client") \subseteq {"download"}
        /\ ReadersOf(r, "out") \subseteq {"download"}
        /\ WritersOf(r, "out") \subseteq {"upload"}
        /\ \A conn \in {"client", "out"} :
             /\ Cardinality(ReadersOf(r, conn)) <= 1
             /\ Cardinality(WritersOf(r, conn)) <= 1

\* Both tasks are at work on the client connection at once, one reading and
\* one writing, while data waits in both directions.
C17_Witness ==
    \E r \in Reqs :
        /\ ReadersOf(r, "client") = {"upload"}
        /\ WritersOf(r, "client") = {"download"}
        /\ c2p[r] # <<>>

\* The number of times ServeError has written to the response of r: it alone
\* writes 400 and 403.
ServeErrorCount(r) ==
    Cardinality({i \in 1..Len(resp[r]) :
                    resp[r][i][1] \in {StatusBadRequest, StatusForbidden}})

\* portAllowed refuses the CONNECT request r.
Unauthorized(r) == IsConnectReq(r) /\ ~PortAllowed(allowedPorts, req[r].host).ok

\* C13: a CONNECT that fails port authorization is answered with 400 or 403
\* and a reason and then dropped: ServeError runs at most once per request,
\* intercept is not entered (no success status, no hijack, no dial), and
\* ServeError has never run for a request whose connection was hijacked.
C13_RefusalAborts ==
    \A r \in Reqs :
        /\ Unauthorized(r) => Refused(r, StatusBadRequest) \/ Refused(r, StatusForbidden)
        /\ ServeErrorCount(r) <= 1
        /\ ServeErrorCount(r) = 1 => Unauthorized(r) /\ Len(resp[r]) = 1
        /\ hijacked[r] => ServeErrorCount(r) = 0

\* One request was refused with 403 and dropped.
C13_Witness ==
    \E r \in Reqs :
        Unauthorized(r) /\ Refused(r, StatusForbidden) /\ ServeErrorCount(r) = 1

\* The complete response to r is the status st with the body msg.
AnsweredOnly(r, st, msg) == resp[r] = <<<<st, msg>>>>

\* C14: with a non-empty allow-list, a CONNECT whose target does not split
\* into host and port is answered 400 with the missing-port message, and one
\* whose port is no integer 400 with the invalid-port message; neither is
\* ever answered 403 or the success status, and neither gets a tunnel.
C14_ParseFailureMessages ==
    \A r \in Reqs :
        IsConnectReq(r) /\ Len(allowedPorts) > 0
            => /\ ~SplitHostPort(req[r].host).ok
                    => /\ AnsweredOnly(r, StatusBadRequest,
                                       "No port field in Request-URI / Host header")
                       /\ Refused(r, StatusBadRequest)
               /\ SplitHostPort(req[r].host).ok /\ ~IsInteger(SplitHostPort(req[r].host).port)
                    => /\ AnsweredOnly(r, StatusBadRequest, "Invalid port")
                       /\ Refused(r, StatusBadRequest)

\* A target with a port that is no integer got the invalid-port message.
C14_Witness ==
    \E r \in Reqs :
        /\ IsConnectReq(r) /\ Len(allowedPorts) > 0
        /\ SplitHostPort(req[r].host).ok
        /\ SplitHostPort(req[r].host).port # <<>>
        /\ ~IsInteger(SplitHostPort(req[r].host).port)
        /\ AnsweredOnly(r, StatusBadRequest, "Invalid port")

\* The control points of intercept after the hijack was attempted.
PastHijack == {"dial", "get", "read", "write", "wait", "close", "return", "panic"}

\* The order of events in the state of request r.
OrderInState(r) ==
    /\ HasStatus(r, StatusOK)
          => IsConnectReq(r) /\ PortAllowed(allowedPorts, req[r].host).ok
    /\ pc[r] = "hijack"
          => resp[r] = <<<<StatusOK, "">>>> /\ ~hijacked[r] /\ dials[r] = <<>>
    /\ pc[r] \in PastHijack \/ hijacked[r] \/ HasStatus(r, StatusBadGateway)
          => resp[r] # <<>> /\ resp[r][1] = <<StatusOK, "">>
    /\ dials[r] # <<>> => hijacked[r]
    /\ up[r] # "none" \/ gets[r] > 0 => dials[r] = <<"ok">>

\* The order of events in a step of request r.
OrderInStep(r) ==
    /\ resp'[r] # resp[r] /\ HasStatus(r, StatusOK)'
          => ~hijacked[r] /\ dials[r] = <<>>
    /\ hijacked'[r] # hijacked[r]
          => HasStatus(r, StatusOK) /\ dials[r] = <<>> /\ up[r] = "none"
    /\ dials'[r] # dials[r] => hijacked[r] /\ up[r] = "none"
    /\ up[r] = "none" /\ up'[r] # "none" => hijacked[r] /\ dials'[r] = <<"ok">>

\* C15: the success status is sent only after port authorization has passed
\* and strictly before the hijack is attempted, the dial is attempted only
\* after the hijack has succeeded, and the relay starts only after the dial:
\* authorize, respond success, hijack, dial, relay.
C15_OrderOfEvents ==
    /\ [](\A r \in Reqs : OrderInState(r))
    /\ [][\A r \in Reqs : OrderInStep(r)]_vars

\* A session that went through all five events and relayed a byte.
C15_Witness ==
    \E r \in Reqs :
        /\ Len(allowedPorts) > 0
        /\ resp[r] = <<<<StatusOK, "">>>> /\ hijacked[r] /\ dials[r] = <<"ok">>
        /\ toDst[r] # <<>>

\* C20: every CONNECT request has at most one status written to its
\* response: 200, 400, 403 and 502 exclude each other, and nothing is
\* written after the success status.
C20_AtMostOneStatus ==
    \A r \in Reqs : Len(resp[r]) <= 1

\* The number of runs of closeConns in session r.
TeardownCount(r) ==
    Cardinality({i \in 1..Len(closeLog[r]) : closeLog[r][i] = <<"client", "closeConns">>})

\* A copy of session r has ended with an error.
UpFailed(r) == upEnd[r] \in {"readErr", "writeErr"}
DownFailed(r) == downEnd[r] \in {"readErr", "writeErr"}

\* What closeConns does when it runs: at most once, Close on the client
\* connection and then on the outbound one whatever the first returned, and
\* intercept returns nil whatever the two returned.
CloseConnsSafe ==
    \A r \in Reqs :
        /\ TeardownCount(r) <= 1
        /\ TeardownCount(r) = 1 <=> Tunnel(r) /\ pc[r] \in {"return", "done"}
        /\ TeardownCount(r) = 1 =>
              /\ Len(closeRes[r]) = 2
              /\ \E i \in 1..(Len(closeLog[r]) - 1) :
                    /\ closeLog[r][i] = <<"client", "closeConns">>
                    /\ closeLog[r][i + 1] = <<"out", "closeConns">>
              /\ ClosedBy(r, "out", "closeConns")
        /\ Terminated(r) => ret[r] = "nil"

\* Once both copies have ended, closeConns runs and intercept returns.
BothEndedLeadsToTeardown ==
    \A r \in RelayReqs :
        (upEnd[r] # "" /\ downEnd[r] # "") ~> (Terminated(r) /\ TeardownCount(r) = 1)

\* C18: teardown always completes and runs exactly once per session that
\* reached the relay: once a copy of the session has ended, closeConns runs,
\* once, closing the client connection and then the outbound one even when
\* the first Close fails, and intercept returns without a close error; also
\* when both copies fail together.
C18_TeardownExactlyOnce ==
    /\ []CloseConnsSafe
    /\ \A r \in RelayReqs :
          (upEnd[r] # "" \/ downEnd[r] # "") ~> (Terminated(r) /\ TeardownCount(r) = 1)

\* The tasks of session r that hold a buffer of the pool.
Holders ==
    {<<r, "upload">> : r \in {q \in Reqs : upBuf[q] # 0}}
        \cup {<<r, "download">> : r \in {q \in Reqs : downBuf[q] # 0}}
HeldBy(h) == IF h[2] = "upload" THEN upBuf[h[1]] ELSE downBuf[h[1]]

\* Every request has returned and every upload task has ended.
AllEnded ==
    \A r \in Reqs : pc[r] \in {"idle", "done", "panic"} /\ up[r] \in {"none", "exit"}

\* The buffers of the sessions: at most one borrowed per copy, each returned
\* at most once and only after its copy has ended, none held twice, none
\* left borrowed when every session has ended.
BuffersSafe ==
    /\ \A r \in Reqs :
          /\ gets[r] <= 2 /\ puts[r] <= gets[r]
          /\ upBuf[r] # 0 <=> up[r] \in {"read", "write", "signal", "put"}
          /\ downBuf[r] # 0 <=> Tunnel(r) /\ pc[r] \in {"read", "write", "wait", "close", "return"}
          /\ up[r] = "exit" => upEnd[r] # ""
          /\ Terminated(r) => downEnd[r] # ""
          /\ Terminated(r) /\ up[r] = "exit" => gets[r] = 2 /\ puts[r] = 2
    /\ \A h1 \in Holders, h2 \in Holders : h1 # h2 => HeldBy(h1) # HeldBy(h2)
    /\ \A h \in Holders : HeldBy(h) \notin pool
    /\ AllEnded => Holders = {} /\ pool = 1..made

\* C19: each session that reaches the relay borrows two buffers, one per
\* copy, and returns each exactly once when its copy has ended, by
\* end-of-stream or by error; no buffer is held by two copies, and none
\* stays borrowed once every session has ended.
C19_BuffersReturnedWhenCopyEnds ==
    /\ []BuffersSafe
    /\ \A r \in RelayReqs : upEnd[r] # "" ~> upBuf[r] = 0
    /\ \A r \in RelayReqs : downEnd[r] # "" ~> downBuf[r] = 0

\* The buffer of the upload copy does go back once that copy has ended.
UploadBufferReturned ==
    \A r \in RelayReqs : upEnd[r] # "" ~> upBuf[r] = 0

\* Everything that belongs to session r alone: its request and response, its
\* two connections and their peers, its two tasks, its idle guard.
SessionState(r) ==
    <<pc[r], req[r], resp[r], nextCalls[r], hijacked[r], dials[r],
      up[r], wg[r], gets[r], puts[r], ubuf[r], dbuf[r], upEnd[r], downEnd[r],
      upBuf[r] # 0, downBuf[r] # 0,
      c2p[r], d2p[r], cSent[r], dSent[r], cliEnd[r], dstEnd[r],
      guard[r], idle[r], closeLog[r],
      cWrote[r], dWrote[r], toDst[r], toCli[r], closeRes[r], ret[r]>>

\* Whether a task of session r can take a step, told from the state of
\* session r alone.
MainReady(r) ==
    \/ pc[r] \in {"intercept", "hijack", "dial", "get", "write", "close", "return"}
    \/ pc[r] = "read" /\ (d2p[r] # <<>> \/ dstEnd[r] # "open" \/ OutClosed(r))
    \/ pc[r] = "wait" /\ wg[r] = 0
UploadReady(r) ==
    \/ up[r] \in {"get", "write", "signal", "put"}
    \/ up[r] = "read" /\ (c2p[r] # <<>> \/ cliEnd[r] # "open" \/ ClientClosed(r))
GuardReady(r) == guard[r] = "armed"

\* No session waits for another.
NoSessionBlocked ==
    \A r \in Reqs :
        /\ ENABLED Main(r) <=> MainReady(r)
        /\ ENABLED Upload(r) <=> UploadReady(r)
        /\ ENABLED Guard(r) <=> GuardReady(r)

\* A step changes the state of one session at most.
OneSessionPerStep ==
    Cardinality({r \in Reqs : SessionState(r)' # SessionState(r)}) <= 1

\* C12: sessions running at once on one handler do not interfere: each
\* delivers only what its own peers wrote, every step (a copy, an error, a
\* failed dial, the idle guard, a Close) changes the connections and tasks
\* of one session only, and no session's task waits for another session.
C12_SessionsIndependent ==
    /\ [](C11_RelayDeliversPrefix /\ NoSessionBlocked)
    /\ [][OneSessionPerStep]_vars

\* One tunnel ended by an error and was torn down while the other, started
\* before that, still relays and has all its connections open; both have
\* carried data.
C12_Witness ==
    \E r \in Reqs, q \in Reqs :
        /\ r # q
        /\ Terminated(r) /\ (UpFailed(r) \/ DownFailed(r)) /\ BothClosed(r)
        /\ Tunnel(q) /\ pc[q] = "read" /\ up[q] = "read"
        /\ closeLog[q] = <<>>
        /\ toDst[q] # <<>> \/ toCli[q] # <<>>

(***************************************************************************)
(* Claims about New and the option setters.                                *)
(***************************************************************************)
\* The texts between the commas of a string, read off the string.
CommaAt(s) == {0, Len(s) + 1} \cup {i \in 1..Len(s) : s[i] = ","}
EntriesOf(s) ==
    {SubSeq(s, i + 1, j - 1) : <<i, j>> \in
        {p \in CommaAt(s) \X CommaAt(s) :
            p[1] < p[2] /\ \A k \in CommaAt(s) : ~(p[1] < k /\ k < p[2])}}
HasNonNumericEntry(s) == \E e \in EntriesOf(s) : ~IsInteger(e)

\* New was called, and with which setters.
NewCalled == handler # "none"
Given == {ctor.setters[i] : i \in 1..Len(ctor.setters)}
BadCsvGiven ==
    \E s \in Given : s.kind = "AllowedPortsFromCSV" /\ HasNonNumericEntry(s.csv)

\* The allow-lists the setters of this construction stand for: the lists
\* given as such and the complete lists of the all-numeric strings.
EntryList(s) ==
    LET cs == CHOOSE q \in [1..Cardinality(CommaAt(s)) -> CommaAt(s)] :
                  \A a, b \in DOMAIN q : a < b => q[a] < q[b]
    IN [k \in 1..(Len(cs) - 1) |-> Atoi(SubSeq(s, cs[k] + 1, cs[k + 1] - 1)).n]
WholeLists ==
    {<<>>} \cup {s.ports : s \in {g \in Given : g.kind = "AllowedPorts"}}
           \cup {EntryList(s.csv) : s \in {g \in Given :
                    g.kind = "AllowedPortsFromCSV" /\ ~HasNonNumericEntry(g.csv)}}

NoRequestServed == \A r \in Reqs : pc[r] = "idle" /\ resp[r] = <<>>

ConstructionSafe ==
    NewCalled /\ env = "built" =>
        /\ BadCsvGiven => handler = "failed"
        /\ handler = "failed" => NoRequestServed
        /\ allowedPorts \in WholeLists
        /\ ctor.next = "nil" => handler = "failed"

ConfigFrozen ==
    handler = "ok" => handler' = "ok" /\ UNCHANGED <<allowedPorts, idleTimeout>>

\* C16: when a comma-separated port string given to New has an entry that is
\* not a number, New fails and there is no handler to serve requests; the
\* allow-list is always empty or the whole list of one setter, never the
\* parsed part of a string; and once New has succeeded no step (in particular
\* no ServeHTTP call) changes the idle timeout or the allow-list.
C16_ConstructionAllOrNothing == []ConstructionSafe /\ [][ConfigFrozen]_vars

\* New was given a next handler and the string "1,x", whose first entry is a
\* number, and has failed.
C16_FailedOnSecondEntry ==
    /\ handler = "failed"
    /\ ctor.next = "next"
    /\ AllowedPortsFromCSV(<<"1", ",", "x">>) \in Given

=========================================================================
